---------------------------- MODULE Spec2Model ----------------------------
(***************************************************************************)
(* Model of the scan pipeline of ScanSec (app/routers/scan.py):            *)
(* clone_repository, find_source_files, scan_file with the three language  *)
(* scanners, and the scan_repository handler that drives them.             *)
(*                                                                         *)
(* Text is modelled as follows.  A URL is a sequence of one-character      *)
(* strings, so the URL pattern, rstrip, endswith and the ".git" suffixing  *)
(* are computed on characters.  A path is a record of its directory        *)
(* components, its stem and its suffix.  A source line is the sequence of  *)
(* rule-pattern occurrences it contains, left to right (the regular        *)
(* expressions of the rule tables are not executed; re.finditer yields one *)
(* match per occurrence).  A clone diagnostic (stderr) is the set of       *)
(* message fragments it contains.                                          *)
(* Timestamps, durations and the random scan id are left out.              *)
(***************************************************************************)
EXTENDS Integers, Sequences, FiniteSets, TLC

\* ------------------------------------------------------------------ bounds
\* Largest number of files in a cloned repository.
MaxFiles == 3

\* Largest number of message fragments in a clone diagnostic.
MaxFragments == 2

\* Largest number of lines of a file handed to a scanner on its own.
MaxLines == 3

\* ------------------------------------------------------- program constants
\* scan_file: "if file_size > 1024 * 1024"
MaxFileSize == 1048576

\* Python's None (scan_type: Optional[str], determine_language's result).
None == "<None>"

\* --------------------------------------------------------------- sequences
RECURSIVE Flatten(_)
Flatten(ss) == IF ss = <<>> THEN <<>> ELSE Head(ss) \o Flatten(Tail(ss))

Range(s) == { s[i] : i \in DOMAIN s }

\* All orderings of the finite set S, as sequences without repetition.
Orderings(S) ==
    { s \in [1..Cardinality(S) -> S] : \A i, j \in DOMAIN s : i # j => s[i] # s[j] }

IsPrefix(p, s) == Len(p) <= Len(s) /\ SubSeq(s, 1, Len(p)) = p

\* str.endswith
EndsWith(s, t) == Len(t) <= Len(s) /\ SubSeq(s, Len(s) - Len(t) + 1, Len(s)) = t

\* -------------------------------------------------------------------- URLs
\* Character sequences the request URLs are built from.
Scheme == <<"h", "t", "t", "p", "s", ":", "/", "/">>
GitHub == <<"g", "i", "t", "h", "u", "b">>
Com == <<"c", "o", "m">>
Example == <<"e", "x", "a", "m", "p", "l", "e">>
Dot == <<".">>
Slash == <<"/">>
DotGit == <<".", "g", "i", "t">>
Owner == <<"o">>
Repo == <<"r">>
Newline == "\n"

GitHubHost == Scheme \o GitHub \o Dot \o Com

\* The repo_url values of the requests (str(request.repo_url)).
RepoUrls ==
    { GitHubHost \o Slash \o Owner \o Slash \o Repo,
      GitHubHost \o Slash \o Owner \o Slash \o Repo \o Slash,
      GitHubHost \o Slash \o Owner \o Slash \o Repo \o DotGit,
      GitHubHost \o Slash \o Owner \o Slash \o Repo \o Slash \o DotGit,
      Scheme \o GitHub \o <<"x">> \o Com \o Slash \o Owner \o Slash \o Repo,
      GitHubHost \o Slash \o Owner,
      GitHubHost \o Slash \o Owner \o Slash \o Repo \o Slash \o <<"x">>,
      Scheme \o Example \o Dot \o Com \o Slash \o <<"x">>,
      <<"n", "o", "t", "-", "a", "-", "u", "r", "l">> }

\* [^/]+ : a non-empty run of characters other than "/"
NoSlashRun(s) == Len(s) >= 1 /\ \A i \in DOMAIN s : s[i] # "/"

\* /?(\.git)?$ : what may follow the repository name ($ also matches before
\* a final newline)
UrlTail(t) ==
    \E body \in { <<>>, Slash, DotGit, Slash \o DotGit } :
        t = body \/ t = body \o <<Newline>>

\* re.compile(r"^https://github.com/[^/]+/[^/]+/?(\.git)?$").match(repo_url):
\* the "." of github.com is unescaped, so it matches any character but a
\* newline; the "." of \.git is escaped.
github_url_pattern(repo_url) ==
    LET n == Len(repo_url)
        p == Len(Scheme \o GitHub)
    IN  /\ n >= p + 5
        /\ SubSeq(repo_url, 1, p) = Scheme \o GitHub
        /\ repo_url[p + 1] # Newline
        /\ SubSeq(repo_url, p + 2, p + 5) = Com \o Slash
        /\ \E a \in (p + 6)..n, b \in (p + 6)..n :
              /\ a + 2 <= b
              /\ NoSlashRun(SubSeq(repo_url, p + 6, a))
              /\ repo_url[a + 1] = "/"
              /\ NoSlashRun(SubSeq(repo_url, a + 2, b))
              /\ UrlTail(SubSeq(repo_url, b + 1, n))

\* clone_url = repo_url if repo_url.endswith('.git') else f"{repo_url}.git"
clone_url_of(repo_url) ==
    IF EndsWith(repo_url, DotGit) THEN repo_url ELSE repo_url \o DotGit

\* ----------------------------------------------------------- rule tables
\* The patterns dict of each scanner, in insertion order: rule key and
\* severity (description and recommendation are constants of the rule).
\* The rule table of app/scanners/python_scanner.py, which knows eval and
\* exec only.
python_patterns_eval_only ==
    << [type |-> "eval_exec", severity |-> "high"] >>

python_patterns ==
    << [type |-> "eval_exec",         severity |-> "high"],
       [type |-> "pickle_unsafe",     severity |-> "high"],
       [type |-> "os_system",         severity |-> "medium"],
       [type |-> "subprocess_shell",  severity |-> "high"],
       [type |-> "hardcoded_secrets", severity |-> "medium"],
       [type |-> "sql_injection",     severity |-> "high"],
       [type |-> "input_function",    severity |-> "medium"],
       [type |-> "file_operations",   severity |-> "medium"],
       [type |-> "urllib_unsafe",     severity |-> "medium"] >>

js_patterns ==
    << [type |-> "eval_function",          severity |-> "high"],
       [type |-> "innerhtml_xss",          severity |-> "medium"],
       [type |-> "document_write",         severity |-> "medium"],
       [type |-> "unescaped_input",        severity |-> "high"],
       [type |-> "localstorage_secrets",   severity |-> "medium"],
       [type |-> "sessionstorage_secrets", severity |-> "medium"],
       [type |-> "settimeout_injection",   severity |-> "medium"],
       [type |-> "setinterval_injection",  severity |-> "medium"],
       [type |-> "location_assign",        severity |-> "medium"],
       [type |-> "console_log_secrets",    severity |-> "low"] >>

cpp_patterns ==
    << [type |-> "gets_function",         severity |-> "critical"],
       [type |-> "strcpy_unsafe",         severity |-> "high"],
       [type |-> "strcat_unsafe",         severity |-> "high"],
       [type |-> "system_call",           severity |-> "medium"],
       [type |-> "hardcoded_credentials", severity |-> "medium"],
       [type |-> "malloc_no_check",       severity |-> "medium"],
       [type |-> "free_after_use",        severity |-> "medium"],
       [type |-> "scanf_unsafe",          severity |-> "medium"],
       [type |-> "printf_format_string",  severity |-> "medium"],
       [type |-> "memcpy_unsafe",         severity |-> "medium"],
       [type |-> "sprintf_unsafe",        severity |-> "medium"] >>

\* ---------------------------------------------------------------- scanners
\* Variant of finditer that stops at the first occurrence, as re.search does.
finditer_first_only(type, line) ==
    IF \E k \in DOMAIN line : line[k] = type THEN <<type>> ELSE <<>>

\* re.finditer(config['pattern'], line, re.IGNORECASE): the occurrences of
\* one rule's pattern in a line.
finditer(type, line) == SelectSeq(line, LAMBDA occ : occ = type)

\* Vulnerability(type=..., severity=..., file_path=..., line_number=...,
\* language=...)
Vulnerability(rule, file_path, line_num, language) ==
    [type        |-> rule.type,
     severity    |-> rule.severity,
     file_path   |-> file_path,
     line_number |-> line_num,
     language    |-> language]

\* Variant of scan_line that stops at the first rule that matches the line.
scan_line_first_rule_only(patterns, file_path, line_num, line, language) ==
    LET matching == { k \in DOMAIN patterns :
                        finditer(patterns[k].type, line) # <<>> }
    IN  IF matching = {} THEN <<>>
        ELSE LET first == CHOOSE k \in matching : \A j \in matching : k <= j
             IN  [m \in DOMAIN finditer(patterns[first].type, line) |->
                     Vulnerability(patterns[first], file_path, line_num, language)]

\* "for vuln_type, config in patterns.items(): ... for match in matches:
\*  vulnerabilities.append(...)" on one line
scan_line(patterns, file_path, line_num, line, language) ==
    Flatten([k \in DOMAIN patterns |->
        [m \in DOMAIN finditer(patterns[k].type, line) |->
            Vulnerability(patterns[k], file_path, line_num, language)]])

\* Variant of scan_lines that numbers the lines from 0: "enumerate(lines)".
scan_lines_from_zero(patterns, file_path, content, language) ==
    Flatten([n \in DOMAIN content |->
        scan_line(patterns, file_path, n - 1, content[n], language)])

\* "for line_num, line in enumerate(lines, 1): ..." with
\* lines = content.split('\n')
scan_lines(patterns, file_path, content, language) ==
    Flatten([n \in DOMAIN content |->
        scan_line(patterns, file_path, n, content[n], language)])

scan_python_file(file_path, content) ==
    scan_lines(python_patterns, file_path, content, "python")

scan_js_file(file_path, content) ==
    scan_lines(js_patterns, file_path, content, "javascript")

scan_cpp_file(file_path, content) ==
    scan_lines(cpp_patterns, file_path, content, "cpp")

\* ------------------------------------------------------------------ files
\* str.lower() on the suffixes that occur
Lower(suffix) ==
    CASE suffix = ".PY" -> ".py"
      [] suffix = ".Py" -> ".py"
      [] suffix = ".Js" -> ".js"
      [] suffix = ".JSX" -> ".jsx"
      [] suffix = ".TS" -> ".ts"
      [] suffix = ".Tsx" -> ".tsx"
      [] suffix = ".CPP" -> ".cpp"
      [] suffix = ".C" -> ".c"
      [] suffix = ".H" -> ".h"
      [] suffix = ".Hpp" -> ".hpp"
      [] suffix = ".TXT" -> ".txt"
      [] OTHER -> suffix

\* Path(file_path).suffix
Suffix(file_path) == file_path.suffix

language_map ==
    [ext \in {".py", ".js", ".jsx", ".ts", ".tsx", ".cpp", ".cc", ".cxx",
              ".c++", ".c", ".h", ".hpp"} |->
        CASE ext = ".py" -> "python"
          [] ext \in {".js", ".jsx"} -> "javascript"
          [] ext \in {".ts", ".tsx"} -> "typescript"
          [] ext \in {".cpp", ".cc", ".cxx", ".c++", ".h", ".hpp"} -> "cpp"
          [] ext = ".c" -> "c"]

\* Variant of determine_language that looks the suffix up as written.
determine_language_case_sensitive(file_path) ==
    LET file_ext == Suffix(file_path)
    IN  IF file_ext \in DOMAIN language_map THEN language_map[file_ext] ELSE None

\* language_map.get(Path(file_path).suffix.lower())
determine_language(file_path) ==
    LET file_ext == Lower(Suffix(file_path))
    IN  IF file_ext \in DOMAIN language_map THEN language_map[file_ext] ELSE None

supported_extensions ==
    {".py", ".js", ".jsx", ".ts", ".tsx", ".cpp", ".cc", ".cxx", ".c++", ".c",
     ".h", ".hpp"}

skip_dirs ==
    {".git", "__pycache__", "node_modules", "venv", ".venv", "build", "dist",
     ".pytest_cache", ".mypy_cache"}

\* A file of a cloned repository: its directory below the repository root,
\* its name, its size in bytes, what happens when scan_file reaches it
\* ("ok"; "missing": deleted after discovery; "unreadable": open() raises;
\* "undecodable": it holds bytes that are no valid UTF-8) and its content,
\* split into lines; of an undecodable file, the text left once the invalid
\* bytes are dropped.
File(dirs, stem, suffix, size, state, content) ==
    [dirs |-> dirs, stem |-> stem, suffix |-> suffix, size |-> size,
     state |-> state, content |-> content]

FilePool ==
    { File(<<>>, "app", ".py", 120, "ok",
           << <<"os_system">>, <<>>, <<"eval_exec", "eval_exec">> >>),
      File(<<"src">>, "web", ".js", 80, "ok",
           << <<"innerhtml_xss", "unescaped_input">>, <<"console_log_secrets">> >>),
      File(<<"src", "native">>, "io", ".cpp", 64, "ok", << <<"gets_function">> >>),
      File(<<"src">>, "util", ".py", MaxFileSize, "ok",
           << <<"input_function">> >>),
      File(<<>>, "big", ".PY", MaxFileSize + 1, "ok", << <<"eval_exec">> >>),
      File(<<>>, "gone", ".py", 30, "missing", << <<"pickle_unsafe">> >>),
      File(<<"src">>, "locked", ".js", 30, "unreadable", << <<"eval_function">> >>),
      File(<<>>, "types", ".ts", 30, "ok", << <<"eval_function">> >>),
      File(<<>>, "notes", ".txt", 30, "ok", << <<"os_system">> >>),
      File(<<"node_modules", "lib">>, "dep", ".js", 30, "ok",
           << <<"eval_function">> >>),
      File(<<"src", "build">>, "gen", ".py", 30, "ok", << <<"eval_exec">> >>),
      File(<<>>, "legacy", ".py", 50, "undecodable",
           << <<>>, <<"pickle_unsafe">> >>),
      File(<<>>, "dump", ".js", MaxFileSize + 1, "unreadable",
           << <<"eval_function">> >>) }

\* The repositories a clone can produce.
Repositories == { ws \in SUBSET FilePool : Cardinality(ws) <= MaxFiles }

\* The directories tempfile.mkdtemp() can return.
TmpDir == <<"/", "tmp", "tmpscan">>
OtherTmpDir == <<"/", "tmp", "tmpscan2">>
TmpDirs == {TmpDir, OtherTmpDir}

\* Variant of mkdtemp that builds the name from a fixed string.
mkdtemp_fixed_name(directories) == {TmpDir}

\* tempfile.mkdtemp(): creates a directory under a name no existing entry
\* has; the names it can return.
mkdtemp(directories) == TmpDirs \ directories

\* A path: the directory components and the file name.
Path(parts, f) == [parts |-> parts, stem |-> f.stem, suffix |-> f.suffix]

\* Path(root) / file
PathIn(repo_path, f) == Path(repo_path \o f.dirs, f)

\* os.path.relpath(file_path, repo_path)
relpath(file_path, repo_path) ==
    IF IsPrefix(repo_path, file_path.parts)
    THEN [file_path EXCEPT
            !.parts = SubSeq(file_path.parts, Len(repo_path) + 1, Len(file_path.parts))]
    ELSE file_path

\* The lists made of one list from each set, in the order of the sets.
RECURSIVE Concatenations(_)
Concatenations(choices) ==
    IF choices = <<>> THEN {<<>>}
    ELSE { first \o rest : first \in Head(choices),
                           rest \in Concatenations(Tail(choices)) }

\* The names of the directories directly inside a directory of the tree.
Subdirectories(files, dir) ==
    { f.dirs[Len(dir) + 1] :
        f \in { g \in files : Len(g.dirs) > Len(dir) /\ IsPrefix(dir, g.dirs) } }

\* The files of a directory that pass "file_path.suffix.lower() in
\* supported_extensions", as paths.
SourceFilesIn(repo_path, files, dir) ==
    { PathIn(repo_path, f) :
        f \in { g \in files :
                  g.dirs = dir /\ Lower(g.suffix) \in supported_extensions } }

\* Variant of the walk with "dirs = [d for d in dirs if d not in skip_dirs]":
\* the list os.walk descends into is left as it was.
RECURSIVE os_walk_unpruned(_, _, _)
os_walk_unpruned(repo_path, files, dir) ==
    { own \o below :
        own \in Orderings(SourceFilesIn(repo_path, files, dir)),
        below \in UNION {
            Concatenations([k \in DOMAIN order |->
                os_walk_unpruned(repo_path, files, Append(dir, order[k]))]) :
            order \in Orderings(Subdirectories(files, dir)) } }

\* "for root, dirs, files in os.walk(repo_path):" from one directory down,
\* with "dirs[:] = [d for d in dirs if d not in skip_dirs]" and the suffix
\* test: the lists it can append, the order of the entries of a directory
\* being the file system's.
RECURSIVE os_walk(_, _, _)
os_walk(repo_path, files, dir) ==
    { own \o below :
        own \in Orderings(SourceFilesIn(repo_path, files, dir)),
        below \in UNION {
            Concatenations([k \in DOMAIN order |->
                os_walk(repo_path, files, Append(dir, order[k]))]) :
            order \in Orderings({ d \in Subdirectories(files, dir) :
                                    d \notin skip_dirs }) } }

\* find_source_files: the lists it can return for a tree.
find_source_files(repo_path, files) == os_walk(repo_path, files, <<>>)

\* The files find_source_files finds, in no order.
found_files(repo_path, files) ==
    UNION { Range(listing) : listing \in find_source_files(repo_path, files) }

\* ------------------------------------------------------- clone diagnostics
\* The stderr texts of a failed "git clone", each the set of message
\* fragments it contains, in the case git prints them.
Fragments ==
    { "remote: Repository not found.",
      "fatal: unable to access",
      "Could not resolve host",
      "The requested URL returned error: 403",
      "fatal: Authentication failed",
      "fatal: not a git repository",
      "Connection timed out",
      "git: not found",
      "not recognized as an internal or external command",
      "fatal: early EOF",
      "\n" }

StdErrs == { d \in SUBSET Fragments : Cardinality(d) <= MaxFragments }

\* result.stderr.strip(): the trailing newline goes
Strip(stderr) == stderr \ {"\n"}

\* str.lower() on a fragment
LowerFragment(frag) ==
    CASE frag = "remote: Repository not found." -> "remote: repository not found."
      [] frag = "Could not resolve host" -> "could not resolve host"
      [] frag = "The requested URL returned error: 403" ->
             "the requested url returned error: 403"
      [] frag = "fatal: Authentication failed" -> "fatal: authentication failed"
      [] frag = "Connection timed out" -> "connection timed out"
      [] frag = "fatal: early EOF" -> "fatal: early eof"
      [] OTHER -> frag

\* needle in fragment, for the needles clone_repository tests
IsSubstring(needle, frag) ==
    \/ needle = frag
    \/ <<needle, frag>> \in
         { <<"not found", "remote: repository not found.">>,
           <<"repository", "remote: repository not found.">>,
           <<"not found", "git: not found">>,
           <<"repository", "fatal: not a git repository">>,
           <<"connection", "connection timed out">> }

\* needle in result.stderr.lower()
InStderr(needle, stderr) ==
    \E frag \in stderr : IsSubstring(needle, LowerFragment(frag))

\* HTTPException(status_code=..., detail=...); info is the text interpolated
\* into the detail, if any.
HTTPException(status_code, detail, info) ==
    [status_code |-> status_code, detail |-> detail, info |-> info]

\* Variant of clone_failure that tests the network needles before 'not found'.
clone_failure_network_first(stderr_raw) ==
    LET In(needle) == InStderr(needle, stderr_raw)
    IN  IF In("could not resolve host") \/ In("network") \/ In("connection")
        THEN HTTPException(500,
                 "Network error while cloning repository. Please check your connection.", {})
        ELSE IF In("not found") \/ (In("repository") /\ In("not found"))
        THEN HTTPException(404,
                 "Repository not found or inaccessible (404). Please check the URL.", {})
        ELSE IF In("fatal: not a git repository") \/ In("fatal: unable to access")
        THEN HTTPException(400, "Invalid or inaccessible repository URL.", {})
        ELSE IF In("git: not found")
                  \/ In("not recognized as an internal or external command")
        THEN HTTPException(500, "Git is not installed on the server.", {})
        ELSE HTTPException(500, "Failed to clone repository: ", Strip(stderr_raw))

\* Variant of clone_failure whose fallback interpolates the lowered stderr.
clone_failure_lowered_detail(stderr_raw) ==
    LET In(needle) == InStderr(needle, stderr_raw)
    IN  IF In("not found") \/ (In("repository") /\ In("not found"))
        THEN HTTPException(404,
                 "Repository not found or inaccessible (404). Please check the URL.", {})
        ELSE IF In("could not resolve host") \/ In("network") \/ In("connection")
        THEN HTTPException(500,
                 "Network error while cloning repository. Please check your connection.", {})
        ELSE IF In("fatal: not a git repository") \/ In("fatal: unable to access")
        THEN HTTPException(400, "Invalid or inaccessible repository URL.", {})
        ELSE IF In("git: not found")
                  \/ In("not recognized as an internal or external command")
        THEN HTTPException(500, "Git is not installed on the server.", {})
        ELSE HTTPException(500, "Failed to clone repository: ",
                 { LowerFragment(frag) : frag \in Strip(stderr_raw) })

\* clone_repository, "if result.returncode != 0:" : the exception raised for
\* a diagnostic.
clone_failure(stderr_raw) ==
    LET In(needle) == InStderr(needle, stderr_raw)
    IN  IF In("not found") \/ (In("repository") /\ In("not found"))
        THEN HTTPException(404,
                 "Repository not found or inaccessible (404). Please check the URL.", {})
        ELSE IF In("could not resolve host") \/ In("network") \/ In("connection")
        THEN HTTPException(500,
                 "Network error while cloning repository. Please check your connection.", {})
        ELSE IF In("fatal: not a git repository") \/ In("fatal: unable to access")
        THEN HTTPException(400, "Invalid or inaccessible repository URL.", {})
        ELSE IF In("git: not found")
                  \/ In("not recognized as an internal or external command")
        THEN HTTPException(500, "Git is not installed on the server.", {})
        ELSE HTTPException(500, "Failed to clone repository: ", Strip(stderr_raw))

InvalidUrlError ==
    HTTPException(400,
        "Invalid GitHub repository URL format. Expected: https://github.com/user/repo", {})

TimeoutError ==
    HTTPException(504, "Repository clone timed out. Please try again later.", {})

\* "except Exception as e" of clone_repository
UnexpectedCloneError(e) ==
    HTTPException(500, "Unexpected error during repository clone: ", {e})

NoSourceFilesError ==
    HTTPException(400, "No supported source files found in repository", {})

\* "except Exception as e" of scan_repository
ScanFailedError(e) == HTTPException(500, "Scan failed: ", {e})

\* ------------------------------------------------------------------- state
VARIABLES
    pc,                 \* position of the job in scan_repository
    repo_url,           \* str(request.repo_url)
    scan_type,          \* request.scan_type
    temp_dir,           \* the directory mkdtemp returned, <<>> before
    disk,               \* the temporary directories that exist
    workspace,          \* the files the clone wrote into temp_dir
    clone_calls,        \* the clone URLs handed to "git clone", in order
    rmtree_calls,       \* number of shutil.rmtree calls
    source_files,       \* result of find_source_files
    next_file,          \* index of the next file of the per-file loop
    all_vulnerabilities,
    files_scanned,
    language_breakdown,
    outcome,            \* what scan_repository returned or raised
    chunk_totals,       \* sum of the counts of the chunks already summarised
    clone_result,       \* how subprocess.run ended: returncode and stderr
    suspended,          \* the variables of a second job while this one runs
    users,              \* the rows of the users table
    requests,           \* the signup and update requests being served
    unique_columns      \* whether the users table declares its columns unique

scanVars ==
    <<pc, repo_url, scan_type, temp_dir, disk, workspace, clone_calls,
      rmtree_calls, source_files, next_file, all_vulnerabilities, files_scanned,
      language_breakdown, outcome, chunk_totals, clone_result, suspended>>

authVars == <<users, requests, unique_columns>>

vars == <<scanVars, authVars>>

ScanTypes == {"all", "secrets", None}

\* The file of the workspace a path names.
FileAt(file_path) ==
    CHOOSE f \in workspace : PathIn(temp_dir, f) = file_path

\* os.path.exists(file_path): the file is there and so is the directory the
\* clone was made in.
exists(file_path) ==
    /\ \E directory \in disk : IsPrefix(directory, file_path.parts)
    /\ FileAt(file_path).state # "missing"

\* The files os.walk finds under a directory: none once it is removed.
files_under(repo_path) == IF repo_path \in disk THEN workspace ELSE {}

\* What a call returns or raises.
Returned(value) == [raised |-> FALSE, value |-> value, error |-> ""]
Raised(e) == [raised |-> TRUE, value |-> <<>>, error |-> e]

\* Variant of the size check that also skips a file of exactly the limit.
is_large_file_inclusive(file_size) == file_size >= MaxFileSize

\* "if file_size > 1024 * 1024:  # 1MB limit"
is_large_file(file_size) == file_size > MaxFileSize

\* Variant of the try block that opens the file with errors='strict'.
scan_file_try_strict(file_path) ==
    LET f == FileAt(file_path)
        language == determine_language(file_path)
    IN  IF ~exists(file_path) THEN Returned(<<>>)
        ELSE IF is_large_file(f.size) THEN Returned(<<>>)
        ELSE IF f.state = "unreadable" THEN Raised("PermissionError")
        ELSE IF f.state = "undecodable" THEN Raised("UnicodeDecodeError")
        ELSE IF language = "python"
             THEN Returned(scan_python_file(file_path, f.content))
        ELSE IF language = "javascript"
             THEN Returned(scan_js_file(file_path, f.content))
        ELSE IF language = "cpp"
             THEN Returned(scan_cpp_file(file_path, f.content))
        ELSE Returned(<<>>)

\* scan_file, the body of its try block; open(..., encoding='utf-8',
\* errors='ignore') reads an undecodable file without its invalid bytes.
scan_file_try(file_path) ==
    LET f == FileAt(file_path)
        language == determine_language(file_path)
    IN  IF ~exists(file_path) THEN Returned(<<>>)
        ELSE IF is_large_file(f.size) THEN Returned(<<>>)
        ELSE IF f.state = "unreadable" THEN Raised("PermissionError")
        ELSE IF language = "python"
             THEN Returned(scan_python_file(file_path, f.content))
        ELSE IF language = "javascript"
             THEN Returned(scan_js_file(file_path, f.content))
        ELSE IF language = "cpp"
             THEN Returned(scan_cpp_file(file_path, f.content))
        ELSE Returned(<<>>)

\* Faulty variant of scan_file: the try block without its except clause.
scan_file_unguarded(file_path) == scan_file_try(file_path)

\* scan_file: "except Exception as e: ... return []"
scan_file(file_path) ==
    LET r == scan_file_try(file_path)
    IN  IF r.raised THEN Returned(<<>>) ELSE r

\* language_breakdown.get(language, 0)
Get(breakdown, language) ==
    IF language \in DOMAIN breakdown THEN breakdown[language] ELSE 0

\* Faulty variant of count_languages: "language_breakdown[vuln.language] = 1".
RECURSIVE count_languages_overwrite(_, _)
count_languages_overwrite(breakdown, vulnerabilities) ==
    IF vulnerabilities = <<>> THEN breakdown
    ELSE LET language == Head(vulnerabilities).language
         IN  count_languages_overwrite(
                 [l \in DOMAIN breakdown \cup {language} |->
                     IF l = language THEN 1 ELSE breakdown[l]],
                 Tail(vulnerabilities))

\* Faulty variant of count_languages: the dict is rebuilt with the entry of
\* the current language only.
RECURSIVE count_languages_keep_last(_, _)
count_languages_keep_last(breakdown, vulnerabilities) ==
    IF vulnerabilities = <<>> THEN breakdown
    ELSE LET language == Head(vulnerabilities).language
         IN  count_languages_keep_last(
                 [l \in {language} |-> Get(breakdown, l) + 1],
                 Tail(vulnerabilities))

\* "language_breakdown[vuln.language] = language_breakdown.get(vuln.language, 0) + 1"
\* for each vuln of one file, in order
RECURSIVE count_languages(_, _)
count_languages(breakdown, vulnerabilities) ==
    IF vulnerabilities = <<>> THEN breakdown
    ELSE LET language == Head(vulnerabilities).language
             counted ==
                 [l \in DOMAIN breakdown \cup {language} |->
                     IF l = language THEN Get(breakdown, l) + 1 ELSE breakdown[l]]
         IN  count_languages(IF language # None THEN counted ELSE breakdown,
                             Tail(vulnerabilities))

\* Variant of with_relative_path that leaves the path scan_file was given.
with_absolute_path(vulnerabilities, relative_path) == vulnerabilities

\* "vuln.file_path = relative_path" for each vuln of one file
with_relative_path(vulnerabilities, relative_path) ==
    [k \in DOMAIN vulnerabilities |->
        [vulnerabilities[k] EXCEPT !.file_path = relative_path]]

\* "[request.scan_type] if request.scan_type != "all" else [...]"
scan_types_performed(type) ==
    IF type # "all" THEN <<type>>
    ELSE <<"secrets", "injection", "dangerous_functions">>

\* Faulty variant of ScanSummary: total_vulnerabilities is given the file
\* count.
ScanSummary_file_count_as_total(scanned, vulnerabilities, type, breakdown) ==
    IF type = None
    THEN Raised("ValidationError")
    ELSE Returned([total_files_scanned   |-> scanned,
                   total_vulnerabilities |-> scanned,
                   scan_types_performed  |-> scan_types_performed(type),
                   language_breakdown    |-> breakdown])

\* ScanSummary(...): the scan_types_performed field is a List[str], so a
\* None element fails validation.
ScanSummary(scanned, vulnerabilities, type, breakdown) ==
    IF \E k \in DOMAIN scan_types_performed(type) :
           scan_types_performed(type)[k] = None
    THEN Raised("ValidationError")
    ELSE Returned([total_files_scanned   |-> scanned,
                   total_vulnerabilities |-> Len(vulnerabilities),
                   scan_types_performed  |-> scan_types_performed(type),
                   language_breakdown    |-> breakdown])

\* Faulty variant of ScanResult: the status is not set to "completed".
ScanResult_in_progress(url, summary, vulnerabilities, type, scanned) ==
    [repo_url        |-> url,
     status          |-> "in_progress",
     summary         |-> summary,
     vulnerabilities |-> vulnerabilities,
     metadata        |-> [scan_type |-> type, files_scanned |-> scanned]]

\* ScanResult(...)
ScanResult(url, summary, vulnerabilities, type, scanned) ==
    [repo_url        |-> url,
     status          |-> "completed",
     summary         |-> summary,
     vulnerabilities |-> vulnerabilities,
     metadata        |-> [scan_type |-> type, files_scanned |-> scanned]]

\* Faulty variant of rmtree: nothing is removed.
rmtree_nothing(directories, repo_path) == directories

\* shutil.rmtree(repo_path, ignore_errors=True)
rmtree(directories, repo_path) == directories \ {repo_path}

\* ----------------------------------------------------------------- actions
\* The counts of a Summary.
Counts(scanned, vulnerabilities, breakdown) ==
    [total_files_scanned   |-> scanned,
     total_vulnerabilities |-> vulnerabilities,
     language_breakdown    |-> breakdown]

NoCounts == Counts(0, 0, <<>>)

\* subprocess.run has not returned / returned a CompletedProcess / raised
NotRun == [kind |-> "none"]
Completed(returncode, stderr) ==
    [kind |-> "exit", returncode |-> returncode, stderr |-> stderr]
RunRaised(e) == [kind |-> "raised", exception |-> e]

NoOutcome == [kind |-> "none"]

\* No second job.
NoJob == [pc |-> "none"]

\* The user the users table holds from the start.
Alice == [id |-> 1, email |-> "a@x.io", username |-> "alice"]

\* No signup or update request is served.
AuthIdle ==
    /\ users = {Alice}
    /\ requests = <<>>
    /\ unique_columns = FALSE

ErrorOutcome(e) == [kind |-> "error", error |-> e]
ReportOutcome(result) == [kind |-> "report", result |-> result]

Init ==
    /\ pc = "pending"
    /\ repo_url \in RepoUrls
    /\ scan_type \in ScanTypes
    /\ temp_dir = <<>>
    /\ disk = {}
    /\ workspace = {}
    /\ clone_calls = <<>>
    /\ rmtree_calls = 0
    /\ source_files = <<>>
    /\ next_file = 1
    /\ all_vulnerabilities = <<>>
    /\ files_scanned = 0
    /\ language_breakdown = <<>>
    /\ outcome = NoOutcome
    /\ chunk_totals = NoCounts
    /\ clone_result = NotRun
    /\ suspended = NoJob
    /\ AuthIdle

\* Variant of Fail that tries the clone a second time before giving up.
Fail_after_retry(e) ==
    /\ pc' = IF pc = "cloning" /\ Len(clone_calls) < 1 THEN "cloning" ELSE "failed"
    /\ outcome' = IF pc = "cloning" /\ Len(clone_calls) < 1
                  THEN outcome ELSE ErrorOutcome(e)

\* scan_repository raises e to its caller ("except HTTPException: raise" and
\* "except Exception as e: raise HTTPException(500, ...)"): nothing else is
\* done on the way out.
Fail(e) ==
    /\ pc' = "failed"
    /\ outcome' = ErrorOutcome(e)

\* clone_repository: "temp_dir = tempfile.mkdtemp()"
Mkdtemp ==
    /\ pc = "pending"
    /\ \E directory \in mkdtemp(disk) :
          /\ temp_dir' = directory
          /\ disk' = disk \cup {directory}
    /\ pc' = "validating"
    /\ UNCHANGED <<authVars, suspended, clone_result, chunk_totals, repo_url,
                   scan_type, workspace, clone_calls, rmtree_calls,
                   source_files, next_file, all_vulnerabilities,
                   files_scanned, language_breakdown, outcome>>

\* clone_repository: "if not github_url_pattern.match(repo_url): raise ..."
ValidateUrl ==
    /\ pc = "validating"
    /\ IF github_url_pattern(repo_url)
       THEN pc' = "cloning" /\ UNCHANGED outcome
       ELSE Fail(InvalidUrlError)
    /\ UNCHANGED <<authVars, suspended, clone_result, chunk_totals, repo_url,
                   scan_type, temp_dir, disk, workspace, clone_calls,
                   rmtree_calls, source_files, next_file, all_vulnerabilities,
                   files_scanned, language_breakdown>>

\* subprocess.run(['git', 'clone', clone_url, temp_dir], timeout=15) is called
StartClone == clone_calls' = Append(clone_calls, clone_url_of(repo_url))

\* git exits 0: "return temp_dir"
CloneSucceeds ==
    /\ pc = "cloning"
    /\ StartClone
    /\ \E repository \in Repositories : workspace' = repository
    /\ pc' = "discovering"
    /\ clone_result' = Completed(0, {})
    /\ UNCHANGED <<authVars, suspended, chunk_totals, repo_url, scan_type,
                   temp_dir, disk, rmtree_calls, source_files, next_file,
                   all_vulnerabilities, files_scanned, language_breakdown,
                   outcome>>

\* git exits non-zero: "if result.returncode != 0:"
CloneExitsNonZero ==
    /\ pc = "cloning"
    /\ StartClone
    /\ \E stderr \in StdErrs :
          /\ clone_result' = Completed(128, stderr)
          /\ Fail(clone_failure(stderr))
    /\ UNCHANGED <<authVars, suspended, chunk_totals, repo_url, scan_type,
                   temp_dir, disk, workspace, rmtree_calls, source_files,
                   next_file, all_vulnerabilities, files_scanned,
                   language_breakdown>>

\* Variant of CloneTimesOut for subprocess.run without timeout=15:
\* TimeoutExpired is never raised.
CloneNeverTimesOut == pc = "cloning" /\ FALSE /\ UNCHANGED vars

\* "except subprocess.TimeoutExpired:" ; git has written part of a repository
CloneTimesOut ==
    /\ pc = "cloning"
    /\ StartClone
    /\ \E partial \in Repositories : workspace' = partial
    /\ Fail(TimeoutError)
    /\ clone_result' = RunRaised("TimeoutExpired")
    /\ UNCHANGED <<authVars, suspended, chunk_totals, repo_url, scan_type,
                   temp_dir, disk, rmtree_calls, source_files, next_file,
                   all_vulnerabilities, files_scanned, language_breakdown>>

\* "except Exception as e:" ; subprocess.run cannot start git
CloneCannotStart ==
    /\ pc = "cloning"
    /\ StartClone
    /\ Fail(UnexpectedCloneError("FileNotFoundError"))
    /\ clone_result' = RunRaised("FileNotFoundError")
    /\ UNCHANGED <<authVars, suspended, chunk_totals, repo_url, scan_type,
                   temp_dir, disk, workspace, rmtree_calls, source_files,
                   next_file, all_vulnerabilities, files_scanned,
                   language_breakdown>>

\* "source_files = find_source_files(repo_path)" and "if not source_files:"
Discover ==
    /\ pc = "discovering"
    /\ \E listing \in find_source_files(temp_dir, files_under(temp_dir)) :
          /\ source_files' = listing
          /\ IF listing = <<>>
             THEN Fail(NoSourceFilesError)
             ELSE pc' = "scanning" /\ UNCHANGED outcome
    /\ UNCHANGED <<authVars, suspended, clone_result, chunk_totals, repo_url,
                   scan_type, temp_dir, disk, workspace, clone_calls,
                   rmtree_calls, next_file, all_vulnerabilities,
                   files_scanned, language_breakdown>>

\* Variant of the loop body that keeps the findings of a file only when every
\* scan type was asked for.
ScanNextFile_by_scan_type ==
    /\ pc = "scanning"
    /\ next_file <= Len(source_files)
    /\ LET file_path == source_files[next_file]
           relative_path == relpath(file_path, temp_dir)
           scanned == scan_file(file_path)
           vulnerabilities ==
               IF scan_type = "all"
               THEN with_relative_path(scanned.value, relative_path)
               ELSE <<>>
       IN  IF scanned.raised
           THEN /\ Fail(ScanFailedError(scanned.error))
                /\ UNCHANGED <<next_file, all_vulnerabilities, files_scanned,
                               language_breakdown>>
           ELSE /\ language_breakdown' =
                       count_languages(language_breakdown, vulnerabilities)
                /\ all_vulnerabilities' = all_vulnerabilities \o vulnerabilities
                /\ files_scanned' = files_scanned + 1
                /\ next_file' = next_file + 1
                /\ pc' = IF next_file = Len(source_files)
                         THEN "aggregating" ELSE "scanning"
                /\ UNCHANGED outcome
    /\ UNCHANGED <<authVars, suspended, clone_result, chunk_totals, repo_url,
                   scan_type, temp_dir, disk, workspace, clone_calls,
                   rmtree_calls, source_files>>

\* one iteration of "for file_path in source_files:"
ScanNextFile ==
    /\ pc = "scanning"
    /\ next_file <= Len(source_files)
    /\ LET file_path == source_files[next_file]
           relative_path == relpath(file_path, temp_dir)
           scanned == scan_file(file_path)
           vulnerabilities == with_relative_path(scanned.value, relative_path)
       IN  IF scanned.raised
           THEN /\ Fail(ScanFailedError(scanned.error))
                /\ UNCHANGED <<next_file, all_vulnerabilities, files_scanned,
                               language_breakdown>>
           ELSE /\ language_breakdown' =
                       count_languages(language_breakdown, vulnerabilities)
                /\ all_vulnerabilities' = all_vulnerabilities \o vulnerabilities
                /\ files_scanned' = files_scanned + 1
                /\ next_file' = next_file + 1
                /\ pc' = IF next_file = Len(source_files)
                         THEN "aggregating" ELSE "scanning"
                /\ UNCHANGED outcome
    /\ UNCHANGED <<authVars, suspended, clone_result, chunk_totals, repo_url,
                   scan_type, temp_dir, disk, workspace, clone_calls,
                   rmtree_calls, source_files>>

\* "summary = ScanSummary(...)", "result = ScanResult(...)",
\* "shutil.rmtree(repo_path, ignore_errors=True)", "return result"
BuildReport ==
    /\ pc = "aggregating"
    /\ LET summary == ScanSummary(files_scanned, all_vulnerabilities, scan_type,
                                  language_breakdown)
       IN  IF summary.raised
           THEN /\ Fail(ScanFailedError(summary.error))
                /\ UNCHANGED <<disk, rmtree_calls>>
           ELSE /\ outcome' = ReportOutcome(
                       ScanResult(repo_url, summary.value, all_vulnerabilities,
                                  scan_type, files_scanned))
                /\ disk' = rmtree(disk, temp_dir)
                /\ rmtree_calls' = rmtree_calls + 1
                /\ pc' = "completed"
    /\ UNCHANGED <<authVars, suspended, clone_result, chunk_totals, repo_url,
                   scan_type, temp_dir, workspace, clone_calls, source_files,
                   next_file, all_vulnerabilities, files_scanned,
                   language_breakdown>>

Next ==
    \/ Mkdtemp
    \/ ValidateUrl
    \/ CloneSucceeds
    \/ CloneExitsNonZero
    \/ CloneTimesOut
    \/ CloneCannotStart
    \/ Discover
    \/ ScanNextFile
    \/ BuildReport

Spec == Init /\ [][Next]_vars

Terminal == pc \in {"completed", "failed"}

\* ------------------------------------------------------------------ claims
IsReport == outcome.kind = "report"
IsError == outcome.kind = "error"

\* The errors clone_repository raises.
CloneErrors ==
    {InvalidUrlError, TimeoutError, UnexpectedCloneError("FileNotFoundError")}
        \cup { clone_failure(stderr) : stderr \in StdErrs }

\* The clone returned a workspace path to scan_repository.
CloneSucceeded ==
    \/ pc \in {"discovering", "scanning", "aggregating", "completed"}
    \/ pc = "failed" /\ outcome.error \notin CloneErrors

\* Number of positions of a sequence whose element satisfies Test.
CountWhere(seq, Test(_)) == Cardinality({ k \in DOMAIN seq : Test(seq[k]) })

\* C1: on every exit path of scan_repository the workspace directory that
\* clone_repository allocated has been deleted, exactly once, when control
\* returns to the caller.
C1_WorkspaceDeletedOnEveryExit ==
    (Terminal /\ temp_dir # <<>>) => (temp_dir \notin disk /\ rmtree_calls = 1)

\* C2: when the job returns a Report the workspace directory has been deleted,
\* also when reading one of the discovered files raised inside scan_file.
C2_ReportImpliesWorkspaceDeleted ==
    IsReport => (temp_dir # <<>> /\ temp_dir \notin disk /\ rmtree_calls = 1)

\* A Report was returned although reading a discovered file raised.
C2_Witness ==
    /\ IsReport
    /\ temp_dir \notin disk
    /\ \E k \in DOMAIN source_files :
          /\ FileAt(source_files[k]).state = "unreadable"
          /\ ~is_large_file(FileAt(source_files[k]).size)

\* C3: when the clone times out the job fails with status 504 and the partly
\* written workspace directory has been destroyed.
C3_TimeoutDestroysWorkspace ==
    (IsError /\ outcome.error = TimeoutError) =>
        (outcome.error.status_code = 504 /\ temp_dir \notin disk)

\* The allow-listed shape of C4: https://github.com/<owner>/<repo>, then an
\* optional "/" and an optional ".git".
IsGitHubRepoUrl(url) ==
    LET p == Len(GitHubHost) + 1
        n == Len(url)
    IN  /\ IsPrefix(GitHubHost \o Slash, url)
        /\ \E a \in (p + 1)..n, b \in (p + 1)..n :
              /\ a + 2 <= b
              /\ NoSlashRun(SubSeq(url, p + 1, a))
              /\ url[a + 1] = "/"
              /\ NoSlashRun(SubSeq(url, a + 2, b))
              /\ SubSeq(url, b + 1, n) \in {<<>>, Slash, DotGit, Slash \o DotGit}

\* C4: a URL that is not of the allow-listed shape is rejected with status 400
\* and no clone is started for it.
C4_RejectedUrlNeverCloned ==
    (~IsGitHubRepoUrl(repo_url) /\ pc \notin {"pending", "validating"}) =>
        (outcome = ErrorOutcome(InvalidUrlError) /\ clone_calls = <<>>)

KindOf(e) ==
    CASE e = InvalidUrlError -> "InvalidUrl"
      [] e = TimeoutError -> "Timeout"
      [] e.status_code = 404 -> "NotFound"
      [] e.detail = "Network error while cloning repository. Please check your connection."
            -> "NetworkError"
      [] e.detail = "Invalid or inaccessible repository URL." -> "Forbidden"
      [] e.detail = "Git is not installed on the server." -> "ToolMissing"
      [] e.detail \in {"Failed to clone repository: ",
                       "Unexpected error during repository clone: "} -> "CloneFailed"
      [] OTHER -> "Unclassified"

AcquisitionKinds ==
    {"InvalidUrl", "NotFound", "Forbidden", "NetworkError", "Timeout",
     "ToolMissing", "CloneFailed"}

\* A Report with status completed that carries its summary and findings.
IsCompleteReport(result) ==
    /\ result.status = "completed"
    /\ {"summary", "vulnerabilities"} \subseteq DOMAIN result

ExactlyOneOutcome ==
    /\ Terminal <=> outcome.kind # "none"
    /\ pc = "completed" <=> IsReport
    /\ pc = "failed" <=> IsError
    /\ IsReport => IsCompleteReport(outcome.result)

Skipped(file_path) ==
    LET f == FileAt(file_path)
    IN  f.state = "missing" \/ f.size > MaxFileSize \/ f.state = "unreadable"

\* C7: total_files_scanned counts only the discovered files that a scanner
\* actually processed; a vanished, oversize or unreadable file adds nothing.
C7_FilesScannedCountsProcessedFiles ==
    IsReport =>
        outcome.result.summary.total_files_scanned =
            Cardinality({ k \in DOMAIN source_files : ~Skipped(source_files[k]) })

Languages == {"python", "javascript", "typescript", "cpp", "c"}
Severities == {"critical", "high", "medium", "low"}

RECURSIVE SumOver(_, _)
SumOver(S, f) ==
    IF S = {} THEN 0
    ELSE LET x == CHOOSE y \in S : TRUE IN f[x] + SumOver(S \ {x}, f)

\* The counts agree with a recount of the finding list.
CountsMatch(total, breakdown, findings) ==
    /\ total = Len(findings)
    /\ \A l \in Languages \cup DOMAIN breakdown :
          Get(breakdown, l) = CountWhere(findings, LAMBDA v : v.language = l)
    /\ SumOver(DOMAIN breakdown, breakdown) = total

\* C8: after every iteration of the per-file loop the language counts equal a
\* recount of the findings collected so far and sum to their number, and in
\* the returned Report total_vulnerabilities and language_breakdown equal a
\* recount of the Report's findings.
C8_CountsEqualRecount ==
    /\ CountsMatch(Len(all_vulnerabilities), language_breakdown, all_vulnerabilities)
    /\ IsReport =>
          CountsMatch(outcome.result.summary.total_vulnerabilities,
                      outcome.result.summary.language_breakdown,
                      outcome.result.vulnerabilities)

\* A Report whose findings come from two languages, one of them with several
\* findings.
C8_Witness ==
    /\ IsReport
    /\ Cardinality(DOMAIN outcome.result.summary.language_breakdown) >= 2
    /\ \E l \in DOMAIN outcome.result.summary.language_breakdown :
          outcome.result.summary.language_breakdown[l] >= 2

\* Number of findings of one severity.
SeverityCount(findings, severity) ==
    CountWhere(findings, LAMBDA v : v.severity = severity)

\* C9, as claimed: the Summary holds a mapping from severity to finding count
\* whose entries are the per-severity counts of the findings.
C9_SummaryHasSeverityCounts ==
    IsReport =>
        /\ "severity_breakdown" \in DOMAIN outcome.result.summary
        /\ \A sev \in Severities :
              outcome.result.summary.severity_breakdown[sev] =
                  SeverityCount(outcome.result.vulnerabilities, sev)

\* C9, amended: the Summary holds the total finding count and the mapping
\* from language to finding count and no mapping from severity to finding
\* count; the severity of every finding of the Report is critical, high,
\* medium or low, so the per-severity counts recomputed from the findings
\* sum to total_vulnerabilities.
C9_SeverityCountsOnlyFromFindings ==
    IsReport =>
        /\ DOMAIN outcome.result.summary \subseteq
              {"total_files_scanned", "total_vulnerabilities",
               "scan_duration_seconds", "scan_types_performed",
               "language_breakdown"}
        /\ \A k \in DOMAIN outcome.result.vulnerabilities :
              outcome.result.vulnerabilities[k].severity \in Severities
        /\ SumOver(Severities,
                   [sev \in Severities |->
                       SeverityCount(outcome.result.vulnerabilities, sev)])
              = outcome.result.summary.total_vulnerabilities

\* A Report with findings of at least three severities.
C9_Witness ==
    /\ IsReport
    /\ Cardinality({ sev \in Severities :
                       SeverityCount(outcome.result.vulnerabilities, sev) > 0 }) >= 3

\* ----------------------------------------------- re-ordering, re-chunking
\* The per-file loop of scan_repository run over any ordering of a set of
\* discovered files, cut into chunks at any points: each chunk starts from
\* the loop's initial counters, and the counts of the chunks are added.
PlainUrl == GitHubHost \o Slash \o Owner \o Slash \o Repo

ChunkInit ==
    /\ pc = "scanning"
    /\ repo_url = PlainUrl
    /\ scan_type = "all"
    /\ temp_dir = TmpDir
    /\ disk = {TmpDir}
    /\ workspace \in { ws \in Repositories : found_files(TmpDir, ws) # {} }
    /\ clone_calls = <<clone_url_of(PlainUrl)>>
    /\ rmtree_calls = 0
    /\ source_files \in Orderings(found_files(TmpDir, workspace))
    /\ next_file = 1
    /\ all_vulnerabilities = <<>>
    /\ files_scanned = 0
    /\ language_breakdown = <<>>
    /\ outcome = NoOutcome
    /\ chunk_totals = NoCounts
    /\ clone_result = Completed(0, {})
    /\ suspended = NoJob
    /\ AuthIdle

\* The counts ScanSummary reports for the files looped over so far.
CountsSoFar ==
    LET summary == ScanSummary(files_scanned, all_vulnerabilities, "all",
                               language_breakdown).value
    IN  Counts(summary.total_files_scanned, summary.total_vulnerabilities,
               summary.language_breakdown)

AddCounts(a, b) ==
    Counts(a.total_files_scanned + b.total_files_scanned,
           a.total_vulnerabilities + b.total_vulnerabilities,
           [l \in DOMAIN a.language_breakdown \cup DOMAIN b.language_breakdown |->
               Get(a.language_breakdown, l) + Get(b.language_breakdown, l)])

\* A chunk ends between two files: its counts are added to the total and the
\* next chunk starts from "all_vulnerabilities = []", "files_scanned = 0",
\* "language_breakdown = {}".
EndChunk ==
    /\ pc = "scanning"
    /\ files_scanned > 0
    /\ chunk_totals' = AddCounts(chunk_totals, CountsSoFar)
    /\ all_vulnerabilities' = <<>>
    /\ files_scanned' = 0
    /\ language_breakdown' = <<>>
    /\ UNCHANGED <<authVars, suspended, clone_result, pc, repo_url, scan_type,
                   temp_dir, disk, workspace, clone_calls, rmtree_calls,
                   source_files, next_file, outcome>>

\* The last chunk ends with the loop.
EndLastChunk ==
    /\ pc = "aggregating"
    /\ chunk_totals' = AddCounts(chunk_totals, CountsSoFar)
    /\ pc' = "summed"
    /\ UNCHANGED <<authVars, suspended, clone_result, repo_url, scan_type,
                   temp_dir, disk, workspace, clone_calls, rmtree_calls,
                   source_files, next_file, all_vulnerabilities,
                   files_scanned, language_breakdown, outcome>>

ChunkNext ==
    \/ ScanNextFile
    \/ EndChunk
    \/ EndLastChunk

ChunkSpec == ChunkInit /\ [][ChunkNext]_vars

\* The counts of a set of files, recounted file by file with no order.
RecountOf(paths) ==
    LET found == [p \in paths |-> scan_file(p).value]
    IN  Counts(Cardinality(paths),
               SumOver(paths, [p \in paths |-> Len(found[p])]),
               [l \in { m \in Languages :
                          \E p \in paths : \E k \in DOMAIN found[p] :
                              found[p][k].language = m } |->
                   SumOver(paths,
                       [p \in paths |->
                           CountWhere(found[p], LAMBDA v : v.language = l)])])

\* C10: for a fixed set of discovered files, total_files_scanned,
\* total_vulnerabilities and language_breakdown are the same for every
\* ordering of the files and every split of the ordering into chunks whose
\* counts are added: they equal the recount of the set.
C10_CountsIndependentOfOrderAndChunks ==
    pc = "summed" => chunk_totals = RecountOf(Range(source_files))

\* Three files with findings in two languages, summed from more than one
\* chunk, in an order that lists a subdirectory's file before a root file.
C10_Witness ==
    /\ pc = "summed"
    /\ Len(source_files) >= 3
    /\ files_scanned < Len(source_files)
    /\ chunk_totals.total_vulnerabilities >= 4
    /\ \E l \in DOMAIN chunk_totals.language_breakdown :
          /\ chunk_totals.language_breakdown[l] >= 2
          /\ l \notin DOMAIN language_breakdown
    /\ source_files[1].parts # TmpDir
    /\ \E k \in DOMAIN source_files : source_files[k].parts = TmpDir

\* ------------------------------------------------- one file, one scanner
\* scan_file applied to one readable file of a workspace: every suffix the
\* registry knows, in both cases, some it does not know, and every content of
\* up to MaxLines lines.  A line is written as the occurrences of the rule
\* patterns in it, as the regular expressions of the three scanners find
\* them:
\*     ""                        no occurrence
\*     os.system("rm -rf /")     os_system (python), system_call (cpp)
\*     eval(exec(x))             eval_exec twice (python), eval_function (js)
\*     eval(x)                   eval_exec (python), eval_function (js)
\*     gets(a); strcpy(b, c);    gets_function, strcpy_unsafe (cpp)
EmptyLine == <<>>
OsSystemLine == <<"os_system", "system_call">>
EvalExecLine == <<"eval_exec", "eval_exec", "eval_function">>
EvalLine == <<"eval_exec", "eval_function">>
GetsStrcpyLine == <<"gets_function", "strcpy_unsafe">>

LinePool == {EmptyLine, OsSystemLine, EvalExecLine, EvalLine, GetsStrcpyLine}

\* content.split('\n') has at least one line
Contents ==
    UNION { [1..n -> LinePool] : n \in 1..MaxLines }

ScanSuffixes ==
    supported_extensions
        \cup {".PY", ".Py", ".Js", ".JSX", ".TS", ".Tsx", ".CPP", ".C", ".H", ".Hpp"}
        \cup {".txt", ".TXT", ".md", ".pyc", ""}

ScanStems == {"main", "setup.py"}

ScanInit ==
    /\ pc = "scan_pending"
    /\ repo_url = PlainUrl
    /\ scan_type = "all"
    /\ temp_dir = TmpDir
    /\ disk = {TmpDir}
    /\ \E stem \in ScanStems, suffix \in ScanSuffixes, content \in Contents :
          workspace = {File(<<>>, stem, suffix, Len(content), "ok", content)}
    /\ clone_calls = <<clone_url_of(PlainUrl)>>
    /\ rmtree_calls = 0
    /\ source_files \in { <<PathIn(TmpDir, f)>> : f \in workspace }
    /\ next_file = 1
    /\ all_vulnerabilities = <<>>
    /\ files_scanned = 0
    /\ language_breakdown = <<>>
    /\ outcome = NoOutcome
    /\ chunk_totals = NoCounts
    /\ clone_result = Completed(0, {})
    /\ suspended = NoJob
    /\ AuthIdle

\* "vulnerabilities = scan_file(str(file_path))"
ScanOneFile ==
    /\ pc = "scan_pending"
    /\ LET scanned == scan_file(source_files[next_file])
       IN  IF scanned.raised
           THEN /\ Fail(ScanFailedError(scanned.error))
                /\ UNCHANGED <<all_vulnerabilities, files_scanned, next_file>>
           ELSE /\ all_vulnerabilities' = scanned.value
                /\ files_scanned' = files_scanned + 1
                /\ next_file' = next_file + 1
                /\ pc' = "scanned"
                /\ UNCHANGED outcome
    /\ UNCHANGED <<authVars, suspended, clone_result, chunk_totals, repo_url,
                   scan_type, temp_dir, disk, workspace, clone_calls,
                   rmtree_calls, source_files, language_breakdown>>

ScanNext == ScanOneFile

ScanSpec == ScanInit /\ [][ScanNext]_vars

\* The file handed to the scanner.
ScannedFile == CHOOSE f \in workspace : TRUE

\* The two spellings name the same extension when case is ignored.
SameExtension(suffix, ext) ==
    \/ suffix = ext
    \/ <<suffix, ext>> \in
         { <<".PY", ".py">>, <<".Py", ".py">>, <<".Js", ".js">>,
           <<".JSX", ".jsx">>, <<".TS", ".ts">>, <<".Tsx", ".tsx">>,
           <<".CPP", ".cpp">>, <<".C", ".c">>, <<".H", ".h">>,
           <<".Hpp", ".hpp">>, <<".TXT", ".txt">> }

\* The suffix is, case ignored, one of the extensions.
OneOf(suffix, extensions) == \E ext \in extensions : SameExtension(suffix, ext)

\* The language the registry assigns to a suffix.
ExpectedLanguage(suffix) ==
    CASE OneOf(suffix, {".py"}) -> "python"
      [] OneOf(suffix, {".js", ".jsx"}) -> "javascript"
      [] OneOf(suffix, {".ts", ".tsx"}) -> "typescript"
      [] OneOf(suffix, {".cpp", ".cc", ".cxx", ".c++", ".h", ".hpp"}) -> "cpp"
      [] OneOf(suffix, {".c"}) -> "c"
      [] OTHER -> None

RuleTypes(patterns) == { patterns[k].type : k \in DOMAIN patterns }

\* The rules applied to a file of the language.
RulesOf(language) ==
    CASE language = "python" -> RuleTypes(python_patterns)
      [] language = "javascript" -> RuleTypes(js_patterns)
      [] language = "cpp" -> RuleTypes(cpp_patterns)
      [] OTHER -> {}

AllRuleTypes ==
    RuleTypes(python_patterns) \cup RuleTypes(js_patterns) \cup RuleTypes(cpp_patterns)

\* Number of occurrences of a rule's pattern in a line.
Occurrences(type, line) == Cardinality({ k \in DOMAIN line : line[k] = type })

\* Number of Findings of a rule on a line.
FindingsOf(type, line_number) ==
    Cardinality({ k \in DOMAIN all_vulnerabilities :
                    /\ all_vulnerabilities[k].type = type
                    /\ all_vulnerabilities[k].line_number = line_number })

\* C11 as stated: for every content and language the scanner emits at most
\* one Finding per (rule, line) pair, also when the line holds several
\* occurrences of the rule's pattern.
C11_OneFindingPerRuleAndLine ==
    pc = "scanned" =>
        \A i, j \in DOMAIN all_vulnerabilities :
            (/\ all_vulnerabilities[i].type = all_vulnerabilities[j].type
             /\ all_vulnerabilities[i].line_number = all_vulnerabilities[j].line_number)
                => i = j

\* C11, amended: the scanner emits one Finding per occurrence: a line that
\* holds k occurrences of the pattern of a rule of the file's language
\* produces exactly k Findings for that rule on that line, and a rule of
\* another language produces none.
C11_OneFindingPerOccurrence ==
    pc = "scanned" =>
        \A n \in DOMAIN ScannedFile.content : \A type \in AllRuleTypes :
            FindingsOf(type, n) =
                IF type \in RulesOf(ExpectedLanguage(ScannedFile.suffix))
                THEN Occurrences(type, ScannedFile.content[n])
                ELSE 0

\* A Python line with two occurrences of eval/exec, reported twice.
C11_Witness ==
    /\ pc = "scanned"
    /\ \E n \in DOMAIN ScannedFile.content :
          /\ Occurrences("eval_exec", ScannedFile.content[n]) = 2
          /\ FindingsOf("eval_exec", n) = 2

\* The rules of the language whose pattern occurs in the line.
MatchedRules(line, language) ==
    { type \in RulesOf(language) : Occurrences(type, line) >= 1 }

\* Number of occurrences in the line of patterns of the language's rules.
MatchCount(line, language) ==
    Cardinality({ k \in DOMAIN line : line[k] \in RulesOf(language) })

\* The Findings are as many as the lines and the k-th is on line k.
OneFindingPerLineInOrder ==
    /\ Len(all_vulnerabilities) = Len(ScannedFile.content)
    /\ \A k \in DOMAIN all_vulnerabilities :
          all_vulnerabilities[k].line_number = k

\* C12 as stated: for a file of N lines each of which matches exactly one
\* rule of the file's language, the scanner returns exactly N Findings whose
\* line numbers are 1..N in increasing order.
C12_OneFindingPerMatchingLine ==
    (/\ pc = "scanned"
     /\ \A n \in DOMAIN ScannedFile.content :
           Cardinality(MatchedRules(ScannedFile.content[n],
                                    ExpectedLanguage(ScannedFile.suffix))) = 1)
        => OneFindingPerLineInOrder

\* C12, amended: for a file of N lines each of which holds exactly one
\* occurrence of the pattern of exactly one rule of the file's language, the
\* scanner returns exactly N Findings whose line numbers are 1..N in
\* increasing order, the 1-indexed positions of the lines.
C12_OneFindingPerSingleMatchLine ==
    (/\ pc = "scanned"
     /\ \A n \in DOMAIN ScannedFile.content :
           MatchCount(ScannedFile.content[n],
                      ExpectedLanguage(ScannedFile.suffix)) = 1)
        => OneFindingPerLineInOrder

\* Three lines of one match each, three Findings.
C12_Witness ==
    /\ pc = "scanned"
    /\ Len(ScannedFile.content) >= 3
    /\ \A n \in DOMAIN ScannedFile.content :
          MatchCount(ScannedFile.content[n],
                     ExpectedLanguage(ScannedFile.suffix)) = 1
    /\ Len(all_vulnerabilities) = Len(ScannedFile.content)

\* Every line os.system("rm -rf /") of the file has a Finding of the
\* command-execution rule with the severity, on that line, tagged python.
OsSystemReportedAs(severity) ==
    \A k \in DOMAIN ScannedFile.content :
        ScannedFile.content[k] = OsSystemLine =>
            \E i \in DOMAIN all_vulnerabilities :
                /\ all_vulnerabilities[i].type = "os_system"
                /\ all_vulnerabilities[i].severity = severity
                /\ all_vulnerabilities[i].line_number = k
                /\ all_vulnerabilities[i].language = "python"

\* C13 as stated: a line os.system("rm -rf /") at position k of a
\* Python-classified file produces a Finding of the command-execution rule
\* with severity high, line_number k and language python.
C13_OsSystemIsHigh ==
    (pc = "scanned" /\ ExpectedLanguage(ScannedFile.suffix) = "python")
        => OsSystemReportedAs("high")

\* C13, amended: a line os.system("rm -rf /") at position k of a
\* Python-classified file produces a Finding of the command-execution rule
\* with severity medium, line_number k and language python.
C13_OsSystemIsMedium ==
    (pc = "scanned" /\ ExpectedLanguage(ScannedFile.suffix) = "python")
        => OsSystemReportedAs("medium")

\* The line at position 2 or later of a scanned Python file.
C13_Witness ==
    /\ pc = "scanned"
    /\ ExpectedLanguage(ScannedFile.suffix) = "python"
    /\ \E k \in DOMAIN ScannedFile.content :
          /\ k >= 2
          /\ ScannedFile.content[k] = OsSystemLine
          /\ FindingsOf("os_system", k) = 1

\* C19: determine_language depends on the final extension only, compared
\* case-insensitively: .py is python, .js and .jsx javascript, .ts and .tsx
\* typescript, .cpp .cc .cxx .c++ .h .hpp cpp, .c is c, anything else None;
\* a file classified None, typescript or c yields no finding and no error.
C19_LanguageByExtension ==
    /\ \A k \in DOMAIN source_files :
          determine_language(source_files[k]) =
              ExpectedLanguage(source_files[k].suffix)
    /\ (/\ pc # "scan_pending"
        /\ ExpectedLanguage(ScannedFile.suffix) \in {None, "typescript", "c"})
           => /\ pc = "scanned"
              /\ all_vulnerabilities = <<>>
              /\ outcome = NoOutcome

\* An upper-case .C file holding a line a C++ rule would match, and a file
\* whose name has a known extension before the final one: no findings.
C19_Witness ==
    /\ pc = "scanned"
    /\ all_vulnerabilities = <<>>
    /\ \/ /\ ScannedFile.suffix = ".C"
          /\ \E n \in DOMAIN ScannedFile.content :
                ScannedFile.content[n] = OsSystemLine
       \/ /\ ScannedFile.stem = "setup.py"
          /\ ScannedFile.suffix = ".TXT"
          /\ \E n \in DOMAIN ScannedFile.content :
                ScannedFile.content[n] = EvalLine

\* The rule table applied to a file of the language.
PatternsOf(language) ==
    CASE language = "python" -> python_patterns
      [] language = "javascript" -> js_patterns
      [] language = "cpp" -> cpp_patterns
      [] OTHER -> <<>>

\* The Findings of the scan for one rule on one line, in the order found.
FindingsOfRuleOnLine(type, line_number) ==
    SelectSeq(all_vulnerabilities,
              LAMBDA v : v.type = type /\ v.line_number = line_number)

\* C25: the findings a rule produces on a line depend on that rule and that
\* line only: they are the findings of a registry holding that rule alone,
\* applied to that line alone, whatever the other rules of the language,
\* their order and the other lines of the file are.
C25_RulesAreIndependent ==
    pc = "scanned" =>
        LET language == ExpectedLanguage(ScannedFile.suffix)
            patterns == PatternsOf(language)
        IN  \A n \in DOMAIN ScannedFile.content : \A k \in DOMAIN patterns :
                FindingsOfRuleOnLine(patterns[k].type, n) =
                    scan_line(<<patterns[k]>>, PathIn(temp_dir, ScannedFile), n,
                              ScannedFile.content[n], language)

\* A C++ file whose second or later line matches two rules, both reported.
C25_Witness ==
    /\ pc = "scanned"
    /\ ExpectedLanguage(ScannedFile.suffix) = "cpp"
    /\ \E n \in DOMAIN ScannedFile.content :
          /\ n >= 2
          /\ ScannedFile.content[n] = GetsStrcpyLine
          /\ Len(FindingsOfRuleOnLine("gets_function", n)) = 1
          /\ Len(FindingsOfRuleOnLine("strcpy_unsafe", n)) = 1

\* ------------------------------------------------------------ discovery
\* The files of the workspace with an allowed extension, case ignored, and no
\* directory of the skip set on the way down from the root.
QualifyingFiles ==
    { PathIn(temp_dir, f) :
        f \in { g \in workspace :
                  /\ OneOf(g.suffix, supported_extensions)
                  /\ \A k \in DOMAIN g.dirs : g.dirs[k] \notin skip_dirs } }

\* find_source_files has returned.
Discovered == CloneSucceeded /\ pc # "discovering"

\* C18: find_source_files returns exactly the files of the workspace whose
\* extension, case ignored, is in the allow-list and none of whose ancestor
\* directories below the root is in the skip set, at any depth, and it returns
\* each of them once.
C18_DiscoveryReturnsQualifyingFilesOnce ==
    Discovered =>
        /\ Range(source_files) = QualifyingFiles
        /\ Len(source_files) = Cardinality(QualifyingFiles)

\* A workspace with a file two levels below node_modules, one in a build
\* directory inside src and an upper-case .PY file at the root: only the last
\* is returned.
C18_Witness ==
    /\ Discovered
    /\ \E f \in workspace : f.dirs = <<"node_modules", "lib">>
    /\ \E f \in workspace : f.dirs = <<"src", "build">>
    /\ \E f \in workspace : f.suffix = ".PY"
    /\ Len(source_files) = 1
    /\ source_files[1].suffix = ".PY"

\* The path starts at the file system's root.
IsAbsolute(path) == path.parts # <<>> /\ Head(path.parts) = "/"

\* The path goes through the temporary directory of the job.
ThroughWorkspaceDir(path) ==
    \E i, j \in DOMAIN path.parts :
        SubSeq(path.parts, i, j) \in { Tail(directory) : directory \in TmpDirs }

\* C20: every Finding of a returned Report has a file path relative to the
\* workspace root: not absolute, not through the temporary directory, and
\* naming a file of the workspace by its directories below the root, at any
\* depth.
C20_ReportPathsAreRelative ==
    IsReport =>
        \A k \in DOMAIN outcome.result.vulnerabilities :
            LET path == outcome.result.vulnerabilities[k].file_path
            IN  /\ ~IsAbsolute(path)
                /\ ~ThroughWorkspaceDir(path)
                /\ \E f \in workspace : path = Path(f.dirs, f)

\* A Report with findings of a file at the root and of a file two
\* directories down.
C20_Witness ==
    /\ IsReport
    /\ \E k \in DOMAIN outcome.result.vulnerabilities :
          outcome.result.vulnerabilities[k].file_path.parts = <<>>
    /\ \E k \in DOMAIN outcome.result.vulnerabilities :
          outcome.result.vulnerabilities[k].file_path.parts = <<"src", "native">>

\* ------------------------------------------------- clone failure kinds
\* git exited with a non-zero status.
ExitedNonZero == clone_result.kind = "exit" /\ clone_result.returncode # 0

\* The diagnostic of the non-zero exit holds the fragment.
Diagnosed(frag) == ExitedNonZero /\ frag \in clone_result.stderr

\* C14: when git exits non-zero and its diagnostic says the repository was
\* not found, the job fails with NotFound, status 404, and not with the
\* generic CloneFailed, whatever else the diagnostic holds.
C14_NotFoundDiagnosticGives404 ==
    Diagnosed("remote: Repository not found.") =>
        /\ IsError
        /\ outcome.error.status_code = 404
        /\ KindOf(outcome.error) = "NotFound"

\* A not-found diagnostic that also holds a network message, answered 404.
C14_Witness ==
    /\ Diagnosed("remote: Repository not found.")
    /\ Diagnosed("Could not resolve host")
    /\ IsError
    /\ outcome.error.status_code = 404

\* The host has no usable git: the executable could not be started, or the
\* diagnostic of a non-zero exit says so.
ToolUnavailable ==
    \/ clone_result = RunRaised("FileNotFoundError")
    \/ Diagnosed("git: not found")
    \/ Diagnosed("not recognized as an internal or external command")

\* C15: when git cannot be started, or the diagnostic reports
\* 'git: not found' or 'not recognized as an internal or external command',
\* the job fails with ToolMissing and not with NotFound or CloneFailed.
C15_ToolUnavailableIsToolMissing ==
    ToolUnavailable =>
        /\ IsError
        /\ KindOf(outcome.error) = "ToolMissing"

\* C16: when the clone fails because authentication is required, the job
\* fails with the Forbidden kind, which is none of NotFound, NetworkError
\* and CloneFailed.
C16_AuthenticationFailureIsForbidden ==
    Diagnosed("fatal: Authentication failed") =>
        /\ IsError
        /\ KindOf(outcome.error) = "Forbidden"

\* Fragments in which none of the needles clone_repository tests occurs.
UnclassifiedFragments ==
    { "The requested URL returned error: 403",
      "fatal: Authentication failed",
      "fatal: early EOF",
      "\n" }

\* The diagnostic as git wrote it, less the surrounding whitespace.
DiagnosticText == clone_result.stderr \ {"\n"}

\* C17: every non-zero exit of git ends the job with exactly one error and
\* no workspace path reaches the scan; the error is one of the classified
\* kinds, or, exactly when no classified kind applies to the diagnostic, the
\* generic CloneFailed with status 500 whose message carries the diagnostic
\* as git wrote it.
C17_NonZeroExitIsOneError ==
    ExitedNonZero =>
        /\ pc = "failed"
        /\ IsError
        /\ source_files = <<>>
        /\ files_scanned = 0
        /\ IF clone_result.stderr \subseteq UnclassifiedFragments
           THEN /\ outcome.error.status_code = 500
                /\ outcome.error.detail = "Failed to clone repository: "
                /\ outcome.error.info = DiagnosticText
                /\ KindOf(outcome.error) = "CloneFailed"
           ELSE KindOf(outcome.error) \in
                    {"NotFound", "NetworkError", "Forbidden", "ToolMissing"}

\* An unclassified diagnostic in mixed case with a trailing newline, reported
\* by the generic error.
C17_Witness ==
    /\ ExitedNonZero
    /\ clone_result.stderr = {"fatal: early EOF", "\n"}
    /\ IsError
    /\ outcome.error.info = {"fatal: early EOF"}

\* ------------------------------------------------------ per-file failures
\* Number of Findings of the Report for the file at the path.
ReportedFor(file_path) ==
    Cardinality({ k \in DOMAIN outcome.result.vulnerabilities :
        outcome.result.vulnerabilities[k].file_path = relpath(file_path, temp_dir) })

\* Number of occurrences, in all lines of the file, of patterns of the rules
\* of the file's language.
MatchesIn(f) ==
    SumOver(DOMAIN f.content,
            [n \in DOMAIN f.content |->
                MatchCount(f.content[n], ExpectedLanguage(f.suffix))])

\* No error of the job comes out of scan_file.
NoErrorFromScanFile ==
    IsError =>
        outcome.error \notin
            { ScanFailedError(e) :
                e \in {"PermissionError", "FileNotFoundError", "UnicodeDecodeError"} }

\* The Report has no finding for a discovered file in one of the states or
\* above the size limit, and every finding of every other discovered file.
ReportSkipsOnly(states) ==
    IsReport =>
        \A k \in DOMAIN source_files :
            LET f == FileAt(source_files[k])
            IN  ReportedFor(source_files[k]) =
                    IF f.state \in states \/ f.size > MaxFileSize
                    THEN 0
                    ELSE MatchesIn(f)

\* C21 as stated: scan_file never raises; a file that no longer exists,
\* cannot be opened or cannot be decoded yields no finding, for that file
\* only, and the findings of all other discovered files are in the Report.
C21_FailingFileYieldsNothing ==
    /\ NoErrorFromScanFile
    /\ ReportSkipsOnly({"missing", "unreadable", "undecodable"})

\* C21, amended: scan_file never raises; a file that no longer exists or
\* cannot be opened yields no finding, for that file only; a file with bytes
\* that are no valid UTF-8 is read without them and scanned like any other;
\* the findings of all other discovered files are in the Report.
C21_UnopenableFileYieldsNothing ==
    /\ NoErrorFromScanFile
    /\ ReportSkipsOnly({"missing", "unreadable"})

\* A Report of a repository with an unreadable file, an undecodable file and
\* a readable one: findings for the last two only.
C21_Witness ==
    /\ IsReport
    /\ \E i, j, k \in DOMAIN source_files :
          /\ FileAt(source_files[i]).state = "unreadable"
          /\ FileAt(source_files[j]).state = "undecodable"
          /\ FileAt(source_files[k]).state = "ok"
          /\ i < k
          /\ ReportedFor(source_files[i]) = 0
          /\ ReportedFor(source_files[j]) >= 1
          /\ ReportedFor(source_files[k]) >= 1

\* ------------------------------------------------------------- size limit
\* C26: a file contributes findings only if its size is at most 1048576
\* bytes: a file of that size or less that can be read has all its findings
\* in the Report, a larger one has none and raises no error, and a larger
\* file is given up before it is opened, so that whether it can be read
\* makes no difference.
C26_SizeCeiling ==
    /\ MaxFileSize = 1048576
    /\ NoErrorFromScanFile
    /\ IsReport =>
          \A k \in DOMAIN source_files :
              LET f == FileAt(source_files[k])
              IN  /\ f.size >= MaxFileSize + 1 => ReportedFor(source_files[k]) = 0
                  /\ f.size <= MaxFileSize /\ f.state \in {"ok", "undecodable"} =>
                        ReportedFor(source_files[k]) = MatchesIn(f)
    /\ pc = "scanning" =>
          \A k \in DOMAIN source_files :
              LET f == FileAt(source_files[k])
              IN  f.size >= MaxFileSize + 1 /\ f.state # "missing" =>
                      scan_file_try(source_files[k]) = Returned(<<>>)

\* A Report of a repository with a file of exactly 1048576 bytes, reported,
\* and two files of 1048577 bytes with matching lines, one of which cannot be
\* opened: neither is reported.
C26_Witness ==
    /\ IsReport
    /\ \E i, j, k \in DOMAIN source_files :
          /\ FileAt(source_files[i]).size = 1048576
          /\ ReportedFor(source_files[i]) >= 1
          /\ FileAt(source_files[j]).size = 1048577
          /\ FileAt(source_files[j]).state = "ok"
          /\ MatchesIn(FileAt(source_files[j])) >= 1
          /\ ReportedFor(source_files[j]) = 0
          /\ FileAt(source_files[k]).size = 1048577
          /\ FileAt(source_files[k]).state = "unreadable"
          /\ ReportedFor(source_files[k]) = 0

\* ------------------------------------------------------- rejected requests
\* C27: a request whose URL is rejected as invalid has no effect on the
\* filesystem: no workspace directory was allocated for it and none created
\* by it exists once the error is returned.
C27_RejectedUrlLeavesNoDirectory ==
    (IsError /\ outcome.error = InvalidUrlError) =>
        (temp_dir = <<>> /\ disk = {})

\* The canonical clone address of the repository every allow-listed URL of
\* RepoUrls names.
CanonicalCloneUrl == GitHubHost \o Slash \o Owner \o Slash \o Repo \o DotGit

\* C28: for every accepted URL of the allow-listed shape the address handed
\* to git clone is https://github.com/<owner>/<repo>.git, with ".git" once
\* and directly after the repository name, with and without a trailing "/"
\* and a trailing ".git" in the request.
C28_CloneUrlIsCanonical ==
    IsGitHubRepoUrl(repo_url) =>
        \A k \in DOMAIN clone_calls : clone_calls[k] = CanonicalCloneUrl

\* ---------------------------------------------------------- two scan jobs
\* Two requests served at once, each by its own call of scan_repository: the
\* variables above are those of the job that takes the next step, suspended
\* holds those of the other, and the directories on disk are common to both.
Locals ==
    [pc |-> pc, repo_url |-> repo_url, scan_type |-> scan_type,
     temp_dir |-> temp_dir, workspace |-> workspace,
     clone_calls |-> clone_calls, rmtree_calls |-> rmtree_calls,
     source_files |-> source_files, next_file |-> next_file,
     all_vulnerabilities |-> all_vulnerabilities,
     files_scanned |-> files_scanned,
     language_breakdown |-> language_breakdown, outcome |-> outcome,
     chunk_totals |-> chunk_totals, clone_result |-> clone_result]

\* The repositories the two jobs clone.
JobRepositories ==
    { ws \in Repositories : \A f \in ws : f.stem \in {"app", "web"} }

JobsInit ==
    /\ pc = "pending"
    /\ repo_url = PlainUrl
    /\ scan_type \in ScanTypes
    /\ temp_dir = <<>>
    /\ disk = {}
    /\ workspace = {}
    /\ clone_calls = <<>>
    /\ rmtree_calls = 0
    /\ source_files = <<>>
    /\ next_file = 1
    /\ all_vulnerabilities = <<>>
    /\ files_scanned = 0
    /\ language_breakdown = <<>>
    /\ outcome = NoOutcome
    /\ chunk_totals = NoCounts
    /\ clone_result = NotRun
    /\ \E type \in ScanTypes : suspended = [Locals EXCEPT !.scan_type = type]
    /\ AuthIdle

\* The other job takes the next step.
Switch ==
    /\ suspended' = Locals
    /\ pc' = suspended.pc
    /\ repo_url' = suspended.repo_url
    /\ scan_type' = suspended.scan_type
    /\ temp_dir' = suspended.temp_dir
    /\ workspace' = suspended.workspace
    /\ clone_calls' = suspended.clone_calls
    /\ rmtree_calls' = suspended.rmtree_calls
    /\ source_files' = suspended.source_files
    /\ next_file' = suspended.next_file
    /\ all_vulnerabilities' = suspended.all_vulnerabilities
    /\ files_scanned' = suspended.files_scanned
    /\ language_breakdown' = suspended.language_breakdown
    /\ outcome' = suspended.outcome
    /\ chunk_totals' = suspended.chunk_totals
    /\ clone_result' = suspended.clone_result
    /\ UNCHANGED <<disk, authVars>>

JobCloneSucceeds == CloneSucceeds /\ workspace' \in JobRepositories

JobCloneTimesOut == CloneTimesOut /\ workspace' \in JobRepositories

JobsNext ==
    \/ Mkdtemp
    \/ ValidateUrl
    \/ JobCloneSucceeds
    \/ JobCloneTimesOut
    \/ Discover
    \/ ScanNextFile
    \/ BuildReport
    \/ Switch

JobsSpec == JobsInit /\ [][JobsNext]_vars

\* One job on repositories of small files and diagnostics of one fragment or
\* none.
LiveRepositories ==
    { ws \in Repositories : \A f \in ws : f.stem \in {"util", "io", "notes"} }

LiveCloneSucceeds == CloneSucceeds /\ workspace' \in LiveRepositories

LiveCloneExitsNonZero ==
    CloneExitsNonZero /\ Cardinality(clone_result'.stderr) <= 1

LiveCloneTimesOut == CloneTimesOut /\ workspace' \in LiveRepositories

LiveNext ==
    \/ Mkdtemp
    \/ ValidateUrl
    \/ LiveCloneSucceeds
    \/ LiveCloneExitsNonZero
    \/ LiveCloneTimesOut
    \/ CloneCannotStart
    \/ Discover
    \/ ScanNextFile
    \/ BuildReport

\* The steps scan_repository takes by itself are taken; git may never answer,
\* and then subprocess.run raises TimeoutExpired after 15 seconds.
LiveSpec ==
    /\ Init /\ [][LiveNext]_vars
    /\ WF_vars(Mkdtemp)
    /\ WF_vars(ValidateUrl)
    /\ WF_vars(LiveCloneTimesOut)
    /\ WF_vars(Discover)
    /\ WF_vars(ScanNextFile)
    /\ WF_vars(BuildReport)

\* The job has a workspace directory it has not deleted.
Owns(job) == job.temp_dir # <<>> /\ job.pc # "completed"

\* Number of findings a job alone gets from the file.
FindingsAlone(f) ==
    IF f.state \in {"missing", "unreadable"} \/ f.size > MaxFileSize
    THEN 0
    ELSE MatchesIn(f)

\* The Report has, file by file and in total, what the job gets when it
\* runs alone on its repository.
ReportAsAlone ==
    /\ \A k \in DOMAIN source_files :
          ReportedFor(source_files[k]) = FindingsAlone(FileAt(source_files[k]))
    /\ Range(source_files) = QualifyingFiles
    /\ outcome.result.summary.total_files_scanned = Cardinality(QualifyingFiles)
    /\ outcome.result.summary.total_vulnerabilities =
          SumOver(QualifyingFiles,
                  [path \in QualifyingFiles |-> FindingsAlone(FileAt(path))])
    /\ Len(outcome.result.vulnerabilities) =
          outcome.result.summary.total_vulnerabilities

\* C22: in every interleaving of two jobs each job owns a workspace
\* directory of its own, the directory of a job that still owns one exists
\* whatever the other job has done, and the findings and counts of a job's
\* Report are those it gets when run alone on the same repository.
C22_JobsDoNotInterfere ==
    /\ (Owns(Locals) /\ Owns(suspended)) => temp_dir # suspended.temp_dir
    /\ Owns(Locals) => temp_dir \in disk
    /\ Owns(suspended) => suspended.temp_dir \in disk
    /\ IsReport => ReportAsAlone

\* One job has returned its Report, with findings, and deleted its
\* directory while the other is in the middle of its per-file loop.
C22_Witness ==
    /\ IsReport
    /\ Len(outcome.result.vulnerabilities) >= 3
    /\ temp_dir \notin disk
    /\ suspended.pc = "scanning"
    /\ suspended.files_scanned >= 1
    /\ suspended.temp_dir \in disk

\* ---------------------------------------------------- scan_type and detection
\* The per-file loop of the job is over.
LoopDone(job) ==
    \/ job.pc \in {"aggregating", "completed"}
    \/ /\ job.pc = "failed"
       /\ job.outcome.error = ScanFailedError("ValidationError")

\* The discovered files of a job, relative to its workspace directory.
RelativeListing(job) ==
    [k \in DOMAIN job.source_files |->
        relpath(job.source_files[k], job.temp_dir)]

\* The two jobs scan the same repository, its files found in the same order.
SameRepository ==
    /\ workspace = suspended.workspace
    /\ RelativeListing(Locals) = RelativeListing(suspended)

\* What the per-file loop of a job has detected.
Detection(job) ==
    <<job.all_vulnerabilities, job.files_scanned, job.language_breakdown>>

\* A Report without the two fields that name the scan type.
WithoutScanType(result) ==
    [result EXCEPT !.summary.scan_types_performed = <<>>,
                   !.metadata.scan_type = ""]

C23_TerminalAndNoRetry ==
    [][ /\ ~Terminal
        /\ clone_calls' # clone_calls => clone_calls = <<>> ]_vars

\* A job failed by a non-zero exit of its only clone, with nothing
\* discovered or scanned.
C23_Witness ==
    /\ pc = "failed"
    /\ ExitedNonZero
    /\ Len(clone_calls) = 1
    /\ source_files = <<>>
    /\ files_scanned = 0
    /\ temp_dir \in disk

\* C24: the clone step never blocks a job for ever: a job that is in Cloning
\* leaves it, to Discovering or to Failed, and every job reaches Completed or
\* Failed.
C24_CloneStepEnds ==
    /\ (pc = "cloning") ~> (pc \in {"discovering", "failed"})
    /\ <>Terminal

\* A job whose clone ran into the timeout and failed with status 504.
C24_Witness ==
    /\ pc = "failed"
    /\ clone_result = RunRaised("TimeoutExpired")
    /\ outcome.error.status_code = 504
    /\ Len(clone_calls) = 1

\* ------------------------------------------------------------ user accounts
\* src/app/routers/auth.py: signup and update_user_info, each request served
\* by a coroutine with an AsyncSession of its own on the same database; a
\* coroutine can be suspended at every await, so the steps of two requests
\* interleave between the SELECTs and the commit.
MaxRequests == 2

Emails == {"a@x.io", "b@x.io"}
Usernames == {"alice", "bob", "carol"}

\* UserCreate(email=..., username=..., password=...)
UserCreate(email, username) ==
    [kind |-> "signup", current_user |-> 0, email |-> email,
     username |-> username]

\* UserUpdate(username=..., email=...) sent by the user with the id; a field
\* that is not sent is None.
UserUpdate(id, username, email) ==
    [kind |-> "update", current_user |-> id, email |-> email,
     username |-> username]

RequestBodies ==
    { UserCreate(e, u) : e \in Emails, u \in Usernames } \cup
    { UserUpdate(Alice.id, u, e) :
        u \in {None, "bob"}, e \in {None, "b@x.io"} }

\* result.scalar_one_or_none(): the rows found, none or one of them, or
\* MultipleResultsFound.
scalar_one_or_none(rows) ==
    IF Cardinality(rows) <= 1 THEN Returned(rows)
    ELSE Raised("MultipleResultsFound")

\* select(User).where(User.email == email)
get_user_by_email(table, email) ==
    scalar_one_or_none({ u \in table : u.email = email })

\* select(User).where(User.username == username)
get_user_by_username(table, username) ==
    scalar_one_or_none({ u \in table : u.username = username })

\* The INSERT or UPDATE of the row breaks a unique index of the table, if
\* the table has one.
IntegrityError(table, row) ==
    /\ unique_columns
    /\ \E u \in table :
          /\ u.id # row.id
          /\ u.email = row.email \/ u.username = row.username

\* The handler returns or raises: the status code of the response.
Respond(i, status_code) ==
    requests' = [requests EXCEPT ![i].pc = "done",
                                 ![i].status_code = status_code]

\* The handler goes on to its next await.
Advance(i, next) == requests' = [requests EXCEPT ![i].pc = next]

\* A request arrives and its handler starts.
Receive ==
    /\ Len(requests) < MaxRequests
    /\ \E body \in RequestBodies :
          requests' = Append(requests,
              [body |-> body, status_code |-> 0,
               pc |-> IF body.kind = "signup" THEN "check_email"
                      ELSE "check_username"])
    /\ UNCHANGED <<users, unique_columns, scanVars>>

\* signup: "existing_user = await get_user_by_email(db, user.email)"
SignupCheckEmail(i) ==
    /\ requests[i].body.kind = "signup"
    /\ requests[i].pc = "check_email"
    /\ LET existing_user == get_user_by_email(users, requests[i].body.email)
       IN  IF existing_user.raised THEN Respond(i, 500)
           ELSE IF existing_user.value # {} THEN Respond(i, 400)
           ELSE Advance(i, "check_username")
    /\ UNCHANGED <<users, unique_columns, scanVars>>

\* signup: "existing_username = await get_user_by_username(db, user.username)"
SignupCheckUsername(i) ==
    /\ requests[i].body.kind = "signup"
    /\ requests[i].pc = "check_username"
    /\ LET existing_username ==
               get_user_by_username(users, requests[i].body.username)
       IN  IF existing_username.raised THEN Respond(i, 500)
           ELSE IF existing_username.value # {} THEN Respond(i, 400)
           ELSE Advance(i, "commit")
    /\ UNCHANGED <<users, unique_columns, scanVars>>

\* signup: "db.add(db_user)", "await db.commit()", "return db_user"
SignupCommit(i) ==
    /\ requests[i].body.kind = "signup"
    /\ requests[i].pc = "commit"
    /\ LET db_user == [id |-> Cardinality(users) + 1,
                       email |-> requests[i].body.email,
                       username |-> requests[i].body.username]
       IN  IF IntegrityError(users, db_user)
           THEN Respond(i, 500) /\ UNCHANGED users
           ELSE Respond(i, 200) /\ users' = users \cup {db_user}
    /\ UNCHANGED <<unique_columns, scanVars>>

\* update_user_info: "if user_update.username is not None:" with its check
UpdateCheckUsername(i) ==
    /\ requests[i].body.kind = "update"
    /\ requests[i].pc = "check_username"
    /\ LET existing_user ==
               get_user_by_username(users, requests[i].body.username)
       IN  IF requests[i].body.username = None THEN Advance(i, "check_email")
           ELSE IF existing_user.raised THEN Respond(i, 500)
           ELSE IF \E u \in existing_user.value :
                       u.id # requests[i].body.current_user
                THEN Respond(i, 400)
           ELSE Advance(i, "check_email")
    /\ UNCHANGED <<users, unique_columns, scanVars>>

\* update_user_info: "if user_update.email is not None:" with its check
UpdateCheckEmail(i) ==
    /\ requests[i].body.kind = "update"
    /\ requests[i].pc = "check_email"
    /\ LET existing_user == get_user_by_email(users, requests[i].body.email)
       IN  IF requests[i].body.email = None THEN Advance(i, "commit")
           ELSE IF existing_user.raised THEN Respond(i, 500)
           ELSE IF \E u \in existing_user.value :
                       u.id # requests[i].body.current_user
                THEN Respond(i, 400)
           ELSE Advance(i, "commit")
    /\ UNCHANGED <<users, unique_columns, scanVars>>

\* update_user_info: "await db.commit()", "return current_user"
UpdateCommit(i) ==
    /\ requests[i].body.kind = "update"
    /\ requests[i].pc = "commit"
    /\ LET body == requests[i].body
           stored == CHOOSE u \in users : u.id = body.current_user
           current_user ==
               [id |-> stored.id,
                email |-> IF body.email = None THEN stored.email
                          ELSE body.email,
                username |-> IF body.username = None THEN stored.username
                             ELSE body.username]
       IN  IF IntegrityError(users, current_user)
           THEN Respond(i, 500) /\ UNCHANGED users
           ELSE /\ Respond(i, 200)
                /\ users' = (users \ {stored}) \cup {current_user}
    /\ UNCHANGED <<unique_columns, scanVars>>

AuthInit ==
    /\ pc = "pending"
    /\ repo_url = PlainUrl
    /\ scan_type = "all"
    /\ temp_dir = <<>>
    /\ disk = {}
    /\ workspace = {}
    /\ clone_calls = <<>>
    /\ rmtree_calls = 0
    /\ source_files = <<>>
    /\ next_file = 1
    /\ all_vulnerabilities = <<>>
    /\ files_scanned = 0
    /\ language_breakdown = <<>>
    /\ outcome = NoOutcome
    /\ chunk_totals = NoCounts
    /\ clone_result = NotRun
    /\ suspended = NoJob
    /\ users = {Alice}
    /\ requests = <<>>
    /\ unique_columns \in BOOLEAN

AuthNext ==
    \/ Receive
    \/ \E i \in DOMAIN requests : SignupCheckEmail(i)
    \/ \E i \in DOMAIN requests : SignupCheckUsername(i)
    \/ \E i \in DOMAIN requests : SignupCommit(i)
    \/ \E i \in DOMAIN requests : UpdateCheckUsername(i)
    \/ \E i \in DOMAIN requests : UpdateCheckEmail(i)
    \/ \E i \in DOMAIN requests : UpdateCommit(i)

AuthSpec == AuthInit /\ [][AuthNext]_vars

\* C30: after any interleaving of signup and update_user_info requests no
\* two stored users share an email or a username, and every request is
\* answered with the user (200) or, when its email or username is held by
\* another user, rejected with status 400.
C30_EmailsAndUsernamesAreUnique ==
    /\ \A u, v \in users :
          u.id # v.id => (u.email # v.email /\ u.username # v.username)
    /\ \A i \in DOMAIN requests :
          requests[i].pc = "done" => requests[i].status_code \in {200, 400}

====
